---- MODULE Spec2Model ----
(***************************************************************************)
(* The AI endpoints of the blog editor backend: authentication, the per-   *)
(* user AI rate limiter, the route handlers, the generative facade (with   *)
(* its primary/fallback model policy), the usage ledger and the usage      *)
(* query.  One request is one connection's walk through the express        *)
(* middleware chain; every action is one continuation of the event loop.   *)
(*                                                                         *)
(* Conventions.  JavaScript `undefined` is the string "undefined" (what a  *)
(* template literal renders it as); an absent numeric field is 0, which    *)
(* the code's `||` chains treat exactly like undefined.  Temperatures are  *)
(* kept as the decimal literals of the source.  A text a caller sends is   *)
(* represented by its trimmed length and the length of the white space     *)
(* around it; a text the provider returns is a sequence of lines, a line a *)
(* sequence of characters.  Time is counted in days.                       *)
(***************************************************************************)
EXTENDS Integers, Sequences, FiniteSets, TLC

\* ------------------------------------------------------------------ bounds
MaxConns == 1       \* connections open at a time
MaxNow == 2         \* days the clock may advance in a behaviour
FreeTierMax == 2    \* AI_RATE_LIMIT_FREE_TIER of the deployment
MaxCallers == 2     \* requests in the rate limiter at a time
MaxLines == 3       \* lines in a provider response
MaxPosts == 2       \* rows ever inserted into blog_posts

\* --------------------------------------------------------------- constants
WindowDays == 1     \* windowMs: 24 * 60 * 60 * 1000
PremiumTierMax == 500   \* AI_RATE_LIMIT_PREMIUM_TIER, by default
GeneralMax == 100       \* RATE_LIMIT_MAX_REQUESTS, by default

Undefined == "undefined"
Conns == 1..MaxConns
Callers == 1..MaxCallers
UserIds == {"1", "2"}                 \* users.user_id of the two seeded users
NoUser == [undefined |-> TRUE]        \* req.user before authentication

\* obj.field of JavaScript: undefined when the object has no such property
Get(obj, field) == IF field \in DOMAIN obj THEN obj[field] ELSE Undefined

\* ----------------------------------------------------------- request bodies
GenOps == {"generate", "grammar", "enhance", "titles"}

NoBody ==
  [len |-> 0, padding |-> 0, tone |-> Undefined, length |-> Undefined, creativity |-> Undefined,
   type |-> Undefined, hasCount |-> FALSE, count |-> 0, period |-> Undefined]

Bodies(op) ==
  CASE op = "generate" ->
         {[NoBody EXCEPT !.len = 9], [NoBody EXCEPT !.len = 10],
          [NoBody EXCEPT !.len = 10, !.length = "long", !.creativity = "0.2"],
          [NoBody EXCEPT !.len = 2001]}
    [] op = "grammar" -> {[NoBody EXCEPT !.len = n] : n \in {0, 1, 5001}}
    [] op = "enhance" ->
         {[NoBody EXCEPT !.len = 1, !.type = t] : t \in {"expand", "rewrite"}}
    [] op = "titles" ->
         {[NoBody EXCEPT !.len = 10], [NoBody EXCEPT !.len = 10, !.hasCount = TRUE, !.count = 11],
          [NoBody EXCEPT !.len = 10, !.hasCount = TRUE, !.count = 0]}
    [] op = "usage" -> {[NoBody EXCEPT !.period = p] : p \in {Undefined, "1", "0", "400", "1.5", "-1", "abc", ""}}

ValidBody_Any(op, b) == TRUE

\* express-validator chains of the four POST routes
ValidBody(op, b) ==
  CASE op = "generate" ->
         /\ b.len >= 10 /\ b.len <= 2000
         /\ b.tone \in {Undefined, "professional", "casual", "technical", "creative"}
         /\ b.length \in {Undefined, "short", "medium", "long"}
         /\ b.creativity \in {Undefined, "0", "0.2", "0.7", "1"}
    [] op = "grammar" -> b.len >= 1 /\ b.len <= 5000
    [] op = "enhance" ->
         /\ b.len >= 1 /\ b.len <= 5000
         /\ b.type \in {"expand", "simplify", "improve", "summarize"}
    [] op = "titles" ->
         /\ b.len >= 10 /\ b.len <= 10000
         /\ (b.hasCount => b.count >= 1 /\ b.count <= 10)
    [] OTHER -> TRUE

\* --------------------------------------------- the generative facade (GenAI)
getMaxTokens_Flat(length) == 600

\* limits[length] || 600
getMaxTokens(length) ==
  CASE length = "short" -> 300
    [] length = "medium" -> 600
    [] length = "long" -> 1200
    [] OTHER -> 600

Max(a, b) == IF a >= b THEN a ELSE b
Min(a, b) == IF a <= b THEN a ELSE b
CeilHalf(n) == (n + 1) \div 2

\* the prompt a facade method builds: the instruction template and the text
BuildPrompt(op, b) ==
  CASE op = "generate" ->
         [template |-> "generate",
          tone |-> IF b.tone = Undefined THEN "professional" ELSE b.tone,
          length |-> IF b.length = Undefined THEN "medium" ELSE b.length,
          count |-> 0, text |-> b.len]
    [] op = "grammar" ->
         [template |-> "grammar", tone |-> "", length |-> "", count |-> 0, text |-> b.len]
    [] op = "enhance" ->
         [template |-> IF b.type \in {"expand", "simplify", "improve", "summarize"}
                        THEN b.type ELSE "verbatim",
          tone |-> "", length |-> "", count |-> 0, text |-> b.len]
    [] op = "titles" ->
         [template |-> "titles", tone |-> "", length |-> "",
          count |-> IF b.hasCount THEN b.count ELSE 5, text |-> b.len]

GrammarMaxTokens_Half(length) == CeilHalf(length)

\* Math.min(1200, Math.max(300, Math.ceil(text.length / 2)))
GrammarMaxTokens(length) == Min(1200, Max(300, CeilHalf(length)))

\* the options of the call to the primary model
PrimaryOptions(op, b) ==
  CASE op = "generate" ->
         [temperature |-> IF b.creativity = Undefined THEN "0.7" ELSE b.creativity,
          maxOutputTokens |->
            getMaxTokens(IF b.length = Undefined THEN "medium" ELSE b.length)]
    [] op = "grammar" ->
         [temperature |-> "0.0", maxOutputTokens |-> GrammarMaxTokens(b.len + b.padding)]
    [] op = "enhance" -> [temperature |-> "0.6", maxOutputTokens |-> 900]
    [] op = "titles" -> [temperature |-> "0.8", maxOutputTokens |-> 300]

FallbackOptions_Defaults(op, b) == [temperature |-> "0.7", maxOutputTokens |-> 600]

\* the options of the call to the fallback model
FallbackOptions(op, b) ==
  CASE op = "generate" ->
         [temperature |-> IF b.creativity = Undefined THEN "0.7" ELSE b.creativity,
          maxOutputTokens |->
            getMaxTokens(IF b.length = Undefined THEN "medium" ELSE b.length)]
    [] op = "enhance" -> [temperature |-> "0.6", maxOutputTokens |-> 900]
    [] op = "titles" -> [temperature |-> "0.8", maxOutputTokens |-> 300]

\* correctGrammar of the GenAI facade returns at once on `!text || !text.trim()`
ShortCircuits(service, op, b) == service = "genai" /\ op = "grammar" /\ b.len = 0

\* which facade methods catch a failure of the primary call and try the fallback
HasFallback(op) == op \in {"generate", "enhance", "titles"}

Call(model, op, b, opts) ==
  [model |-> model, prompt |-> BuildPrompt(op, b),
   temperature |-> opts.temperature, maxOutputTokens |-> opts.maxOutputTokens]

\* ------------------------------------------- the generative facade (OpenAI)
OpenAIOptions(op, b) ==
  CASE op = "generate" ->
         [temperature |-> IF b.creativity = Undefined THEN "0.7" ELSE b.creativity,
          maxOutputTokens |-> getMaxTokens(IF b.length = Undefined THEN "medium" ELSE b.length)]
    [] op = "grammar" -> [temperature |-> "0.3", maxOutputTokens |-> 1000]
    [] op = "enhance" -> [temperature |-> "0.7", maxOutputTokens |-> 1500]
    [] op = "titles" -> [temperature |-> "0.8", maxOutputTokens |-> 500]

\* ------------------------------------------------------------ the provider
\* what the upstream API can answer: a response, with or without a usage
\* report, or an error (status and code 0 when the error carries none): one
\* without a status, about the quota or not, or a 403 about the quota
Replies ==
  {[ok |-> TRUE, usage |-> u, tokens |-> IF u THEN 7 ELSE 0,
    status |-> 0, code |-> 0, quota |-> FALSE] : u \in BOOLEAN}
  \cup
  {[ok |-> FALSE, usage |-> FALSE, tokens |-> 0,
    status |-> 0, code |-> 0, quota |-> q] : q \in BOOLEAN}
  \cup
  {[ok |-> FALSE, usage |-> FALSE, tokens |-> 0,
    status |-> 403, code |-> 0, quota |-> TRUE]}

\* the status _callModel puts on the error it throws for an upstream error
NormalizedStatus(err) ==
  LET status == IF err.status # 0 THEN err.status
                ELSE IF err.code # 0 THEN err.code
                ELSE IF err.quota THEN 429 ELSE 0
  IN IF status # 0 THEN status ELSE 500

\* the outcome of one _callModel of the GenAI facade
NoOutcome == [state |-> "none", tokensUsed |-> 0, status |-> 0]
CallModel(configured, reply) ==
  IF ~configured THEN [state |-> "error", tokensUsed |-> 0, status |-> 503]
  ELSE IF reply.ok
    THEN [state |-> "ok", tokensUsed |-> IF reply.usage THEN reply.tokens ELSE 0, status |-> 0]
    ELSE [state |-> "error", tokensUsed |-> 0, status |-> NormalizedStatus(reply)]

\* whether response.choices[0].message.content is a string
HasContent(reply) == IF "hasText" \in DOMAIN reply THEN reply.hasText ELSE TRUE

\* the outcome of one chat.completions.create of the OpenAI facade: reading
\* response.usage.total_tokens throws when there is no usage, using the
\* content throws when there is none, and every error is replaced by a new
\* Error without a status
OpenAICall(reply) ==
  IF reply.ok /\ reply.usage /\ HasContent(reply)
    THEN [state |-> "ok", tokensUsed |-> reply.tokens, status |-> 0]
    ELSE [state |-> "error", tokensUsed |-> 0, status |-> 0]

\* the error a facade method throws when its last attempt failed with `out`
Thrown(op, out) ==
  IF op = "generate"
    THEN [out EXCEPT !.status = IF out.status # 0 THEN out.status ELSE 500]
    ELSE out

\* ------------------------------------------------------------------ routes
NoData == [period |-> 0, requests |-> 0, tokens |-> 0, byFeature |-> {}, dailyUsage |-> {}]
NoResp == [status |-> 0, code |-> "", tokensUsed |-> 0, data |-> NoData, timestamp |-> 0]
Resp(status, code) == [NoResp EXCEPT !.status = status, !.code = code]

\* the catch block of a generation route
ErrorResp(op, err) ==
  LET status == IF err.status # 0 THEN err.status ELSE 500
  IN IF status = 429 THEN Resp(429, "AI_QUOTA_EXCEEDED")
     ELSE IF status = 503 /\ op = "generate" THEN Resp(503, "AI_SERVICE_UNAVAILABLE")
     ELSE Resp(500, CASE op = "generate" -> "AI_GENERATE_ERROR"
                      [] op = "grammar" -> "AI_GRAMMAR_ERROR"
                      [] op = "enhance" -> "AI_ENHANCE_ERROR"
                      [] op = "titles" -> "AI_TITLES_ERROR")

SuccessResp(out, t) == [Resp(200, "OK") EXCEPT !.tokensUsed = out.tokensUsed, !.timestamp = t]

FeatureType(op, b) == IF op = "enhance" THEN "enhance_" \o b.type ELSE op

\* --------------------------------------------------------------- the editor
\* what the user types and what the AI answers, as values of a field
Typed == {"", "typed", "retyped"}
Suggested == {"first suggestion", "second suggestion"}

\* useState of BlogEditor on a new post; `seen` is the post of the render
\* whose handleAIAction is running, `applied` what the last response did
NewPost == [title |-> "", content |-> "", status |-> "draft"]
NewEditor ==
  [post |-> NewPost, aiLoading |-> FALSE, action |-> "none", seen |-> NewPost,
   applied |-> "none"]

\* ------------------------------------------------------------ the blog table
\* blog_posts, the row of post_id p at index p (a deleted row keeps its
\* place: the serial does not hand an id out again), and the answer to the
\* request on /api/blogs being served
NoAnswer == [user |-> "", op |-> "none", id |-> 0, status |-> 0, code |-> "", posts |-> {}]
EmptyBlog == [posts |-> <<>>, resp |-> NoAnswer]

\* ------------------------------------------------------ the database module
\* DB_SSL of the environment, and the messages of the errors pool.connect
\* and client.query can fail with
SslModes == {Undefined, "", "require", "disable", "DISABLE", "false"}
NoSslMessage == "The server does not support SSL connections"
ConnectErrors == {NoSslMessage, "connect ECONNREFUSED"}

\* toLowerCase, on the values above
LowerCase(str) == IF str = "DISABLE" THEN "disable" ELSE str

\* (sslMode || 'prefer').toLowerCase()
Mode(sslMode) == LowerCase(IF sslMode \in {Undefined, ""} THEN "prefer" ELSE sslMode)

\* buildPool: the n-th pool of the process, with or without SSL
buildPool(sslMode, n) ==
  [ssl |-> Mode(sslMode) \notin {"disable", "false", "off", "0"}, ended |-> FALSE, n |-> n]

\* the module once loaded: `let pool = buildPool(process.env.DB_SSL)`;
\* `queried` is the pool the last query went to
NoQuery == [n |-> 0, ssl |-> FALSE, ok |-> FALSE]
StartDb(env) ==
  [env |-> env, pool |-> buildPool(env, 1), pc |-> "start", attempts |-> 0,
   first |-> "", second |-> "", thrown |-> "", queried |-> NoQuery]
FreshDb == StartDb(Undefined)

\* ------------------------------------------------------------------- state
VARIABLES
  conn,      \* conn[c]: the request being served on connection c
  hits,      \* the limiters' stores: key -> [count, resetTime]
  now,       \* the clock, in days
  ledger,    \* table ai_usage_logs, in insertion order
  impl,      \* which AIService module `aiService` is bound to
  clientOk,  \* whether the provider client was constructed
  issued,    \* history: per user, that user's own requests in its window
  admits,    \* history: per user, the requests of it admitted in one window
  call,      \* a method of aiService called directly: arguments and outcome
  editor,    \* the BlogEditor component of one browser tab
  blog,      \* table blog_posts and the answer to the last blog request
  db         \* the database module: its pool and the course of connectDB

vars == <<conn, hits, now, ledger, impl, clientOk, issued, admits, call, editor, blog, db>>

\* the upstream error of the facade's last failed attempt
NoFailure == [status |-> 0, code |-> 0, quota |-> FALSE]

IdleConn ==
  [pc |-> "idle", token |-> "none", user |-> NoUser, op |-> "none", body |-> NoBody,
   limiter |-> "none", key |-> "", totalHits |-> 0, admitted |-> FALSE, within |-> FALSE, calls |-> <<>>, upstream |-> 0,
   primary |-> "none", failure |-> NoFailure,
   out |-> NoOutcome, log |-> "none", resp |-> NoResp]

NoCall ==
  [op |-> "none", body |-> NoBody, replies |-> <<>>, calls |-> <<>>, upstream |-> 0,
   out |-> NoOutcome, text |-> <<>>, titles |-> <<>>, correctedText |-> <<>>]

Tokens == {"none", "bad"} \cup UserIds
UserKeys == {"user:" \o u : u \in UserIds \cup {Undefined}}
Keys == UserKeys \cup {"premium/" \o k : k \in UserKeys} \cup {"general/ip:addr"}
NoBucket == [count |-> 0, resetTime |-> 0]
MaxHits == FreeTierMax + 1

Init ==
  /\ conn = [c \in Conns |-> IdleConn]
  /\ hits = [k \in Keys |-> NoBucket]
  /\ now = 0
  /\ ledger = <<>>
  /\ impl \in {"genai", "openai"}
  /\ clientOk \in BOOLEAN
  /\ issued = [u \in UserIds |-> NoBucket]
  /\ admits = [u \in UserIds |-> NoBucket]
  /\ call = NoCall
  /\ editor = NewEditor
  /\ blog = EmptyBlog
  /\ db = FreshDb

Set(c, r) == conn' = [conn EXCEPT ![c] = r]

\* a request arrives: its Authorization header and the route it addresses
Arrive(c) ==
  /\ conn[c].pc = "idle"
  /\ \E tok \in Tokens : Set(c, [IdleConn EXCEPT !.pc = "auth", !.token = tok])
  /\ UNCHANGED <<hits, now, ledger, impl, clientOk, issued, admits, call, editor, blog, db>>

\* req.user as authenticateToken builds it from the users row
AuthUser(uid) == [id |-> uid, username |-> "user" \o uid]

authenticateToken_Open(c) ==
  /\ conn[c].pc = "auth"
  /\ Set(c, [conn[c] EXCEPT !.pc = "limit",
                            !.user = IF conn[c].token \in UserIds
                                       THEN AuthUser(conn[c].token) ELSE NoUser])
  /\ UNCHANGED <<hits, now, ledger, impl, clientOk, issued, admits, call, editor, blog, db>>

\* authenticateToken: only a verified token whose user exists reaches next()
authenticateToken(c) ==
  /\ conn[c].pc = "auth"
  /\ \E dbOk \in BOOLEAN :
       LET r == conn[c]
           done(status, code) == [r EXCEPT !.pc = "done", !.resp = Resp(status, code)]
       IN Set(c, IF r.token = "none" THEN done(401, "NO_TOKEN")
                 ELSE IF r.token = "bad" THEN done(403, "INVALID_TOKEN")
                 ELSE IF ~dbOk THEN done(500, "DATABASE_ERROR")
                 ELSE IF r.token \notin UserIds THEN done(404, "USER_NOT_FOUND")
                 ELSE [r EXCEPT !.pc = "limit", !.user = AuthUser(r.token)])
  /\ UNCHANGED <<hits, now, ledger, impl, clientOk, issued, admits, call, editor, blog, db>>

\* keyGenerator of createAIRateLimiter
keyGenerator(user) ==
  IF user # NoUser THEN "user:" \o Get(user, "user_id") ELSE "ip:addr"

Increment_Lossy(bucket, t) ==
  IF bucket.count = 0 \/ bucket.resetTime <= t
    THEN [count |-> 1, resetTime |-> t + WindowDays]
    ELSE bucket

\* the store's increment: a bucket whose window has elapsed starts again
Increment(bucket, t) ==
  IF bucket.count = 0 \/ bucket.resetTime <= t
    THEN [count |-> 1, resetTime |-> t + WindowDays]
    ELSE [bucket EXCEPT !.count = @ + 1]

RejectCallsNext_Always == TRUE

\* whether the limiter's handler lets a request over the ceiling go on
RejectCallsNext == FALSE

\* the history of admitted requests, after one more in the window `window`
Admitted(bucket, window) ==
  IF bucket.resetTime = window
    THEN [bucket EXCEPT !.count = @ + 1]
    ELSE [count |-> 1, resetTime |-> window]

Limiter_Tiered(user) ==
  IF user = NoUser THEN "general" ELSE IF user.id = "2" THEN "premium" ELSE "free"

\* aiRateLimiter: which limiter a request is handed to
Limiter(user) == IF user = NoUser THEN "general" ELSE "free"

\* max of the three limiters
Ceiling(limiter) ==
  CASE limiter = "free" -> FreeTierMax
    [] limiter = "premium" -> PremiumTierMax
    [] limiter = "general" -> GeneralMax

\* every limiter has a store of its own; the model keeps them in one
\* function, the keys of the free-tier store as they are
StoreKey(limiter, key) == IF limiter = "free" THEN key ELSE limiter \o "/" \o key

\* whether the window of the bucket may have elapsed since its last hit: the
\* general limiter's window is 15 minutes, which the clock does not measure
MayElapse(limiter) == IF limiter = "general" THEN BOOLEAN ELSE {FALSE}

\* the increment in the store of `limiter`
Hit(limiter, bucket, t, elapsed) ==
  IF limiter = "general"
    THEN IF elapsed \/ bucket.count = 0
           THEN [count |-> 1, resetTime |-> t]
           ELSE [bucket EXCEPT !.count = @ + 1]
    ELSE Increment(bucket, t)

\* the histories, after a request of `user`
Issue(user, t) ==
  IF user = NoUser THEN issued
  ELSE [issued EXCEPT ![user.id] = Increment(@, t)]
Admit(user, admit, window) ==
  IF user = NoUser \/ ~admit THEN admits
  ELSE [admits EXCEPT ![user.id] = Admitted(@, window)]
Within(user, t) == user # NoUser /\ Increment(issued[user.id], t).count <= FreeTierMax

\* aiRateLimiter: a request without req.user goes to generalLimiter, every
\* other one to freeTierLimiter
aiRateLimiter(c) ==
  /\ conn[c].pc = "limit"
  /\ LET r == conn[c]
         limiter == Limiter(r.user)
         key == StoreKey(limiter, keyGenerator(r.user))
     IN \E elapsed \in MayElapse(limiter) :
          LET bucket == Hit(limiter, hits[key], now, elapsed)
              admit == bucket.count <= Ceiling(limiter)
              counted == [r EXCEPT !.limiter = limiter, !.key = key, !.admitted = admit,
                                   !.totalHits = bucket.count, !.within = Within(r.user, now)]
          IN /\ hits[key].count < MaxHits
             /\ hits' = [hits EXCEPT ![key] = bucket]
             /\ issued' = Issue(r.user, now)
             /\ admits' = Admit(r.user, admit, bucket.resetTime)
             /\ Set(c, IF admit \/ RejectCallsNext
                         THEN [counted EXCEPT !.pc = "handler"]
                         ELSE [counted EXCEPT !.pc = "done",
                                              !.resp = Resp(429, IF limiter = "general"
                                                                   THEN "RATE_LIMIT_EXCEEDED"
                                                                   ELSE "AI_RATE_LIMIT_EXCEEDED")])
  /\ UNCHANGED <<now, ledger, impl, clientOk, call, editor, blog, db>>

\* the limiter in its two steps.  First the key is made and the store's
\* increment runs, to the end, in one turn of the event loop; the request
\* then waits for the promise of { totalHits, resetTime } to resolve
storeIncrement(c) ==
  /\ conn[c].pc = "limit"
  /\ LET r == conn[c]
         limiter == Limiter(r.user)
         key == StoreKey(limiter, keyGenerator(r.user))
     IN \E elapsed \in MayElapse(limiter) :
          LET bucket == Hit(limiter, hits[key], now, elapsed)
          IN /\ hits[key].count < MaxHits
             /\ hits' = [hits EXCEPT ![key] = bucket]
             /\ issued' = Issue(r.user, now)
             /\ Set(c, [r EXCEPT !.pc = "counted", !.limiter = limiter, !.key = key,
                                 !.totalHits = bucket.count, !.within = Within(r.user, now)])
  /\ UNCHANGED <<now, ledger, impl, clientOk, admits, call, editor, blog, db>>

\* ... then, with the totalHits its own increment returned, the request is
\* handed to the route (next) or to the limiter's handler (429)
limiterDecide(c) ==
  /\ conn[c].pc = "counted"
  /\ LET r == conn[c]
         admit == r.totalHits <= Ceiling(r.limiter)
     IN /\ admits' = Admit(r.user, admit, hits[r.key].resetTime)
        /\ Set(c, IF admit \/ RejectCallsNext
                    THEN [r EXCEPT !.pc = "handler", !.admitted = admit]
                    ELSE [r EXCEPT !.pc = "done", !.admitted = admit,
                                   !.resp = Resp(429, IF r.limiter = "general"
                                                        THEN "RATE_LIMIT_EXCEEDED"
                                                        ELSE "AI_RATE_LIMIT_EXCEEDED")])
  /\ UNCHANGED <<hits, now, ledger, impl, clientOk, issued, call, editor, blog, db>>

SkipFailedRequests_On == TRUE

\* the limiter's option skipFailedRequests, which createAIRateLimiter leaves
\* at its default
SkipFailedRequests == FALSE

\* the store once a response has been sent: with skipFailedRequests the hit
\* of a request answered with 400 or more is taken back
Refund(r) ==
  IF SkipFailedRequests /\ r.key # "" /\ r.pc = "done" /\ r.resp.status >= 400
    THEN [hits EXCEPT ![r.key].count = Max(0, @ - 1)]
    ELSE hits

AwaitsLedgerWrite_Forget == FALSE

\* whether a route awaits logAIUsage before it sends the response
AwaitsLedgerWrite == TRUE

\* the route has the facade's result: it calls logAIUsage, which sends the INSERT
EnterLogging(r, out) ==
  [r EXCEPT !.pc = "logging", !.log = "pending", !.out = out,
            !.resp = IF AwaitsLedgerWrite THEN NoResp ELSE SuccessResp(out, now)]

\* a generation route up to the facade's first provider call
Handle(c) ==
  /\ conn[c].pc = "handler"
  /\ \E op \in GenOps : \E b \in Bodies(op) :
       LET r == [conn[c] EXCEPT !.op = op, !.body = b]
       IN Set(c,
            IF ~ValidBody(op, b)
              THEN [r EXCEPT !.pc = "done", !.resp = Resp(400, "VALIDATION_ERROR")]
            ELSE IF impl = "genai"
              THEN IF ShortCircuits(impl, op, b)
                     THEN EnterLogging(r, [state |-> "ok", tokensUsed |-> 0, status |-> 0])
                     ELSE [r EXCEPT !.pc = "primary", !.primary = "pending",
                                    !.calls = <<Call("default", op, b, PrimaryOptions(op, b))>>]
            ELSE IF ~clientOk
              THEN [r EXCEPT !.pc = "done", !.out = [NoOutcome EXCEPT !.state = "error"],
                             !.resp = ErrorResp(op, NoOutcome)]
              ELSE [r EXCEPT !.pc = "primary", !.primary = "pending",
                             !.calls = <<Call("gpt-4", op, b, OpenAIOptions(op, b))>>])
  /\ hits' = Refund(conn'[c])
  /\ UNCHANGED <<now, ledger, impl, clientOk, issued, admits, call, editor, blog, db>>

AfterAttempt_Both(stage, op, out, service) ==
  IF stage = "primary" /\ service = "genai" /\ HasFallback(op) THEN "fallback"
  ELSE IF out.state = "ok" THEN "return" ELSE "throw"

\* what a facade method does when an attempt has ended with `out`
AfterAttempt(stage, op, out, service) ==
  IF out.state = "ok" THEN "return"
  ELSE IF stage = "primary" /\ service = "genai" /\ HasFallback(op) THEN "fallback"
  ELSE "throw"

\* the provider answers the pending call (or the call fails unconfigured)
ProviderReply(c) ==
  /\ conn[c].pc \in {"primary", "fallback"}
  /\ \E reply \in Replies :
       LET r == conn[c]
           op == r.op
           out == IF impl = "genai" THEN CallModel(clientOk, reply) ELSE OpenAICall(reply)
           sent == IF impl = "genai" /\ ~clientOk THEN 0 ELSE 1
           r1 == [r EXCEPT !.upstream = @ + sent,
                           !.primary = IF r.pc = "primary" THEN out.state ELSE @,
                           !.failure = IF sent = 1 /\ ~reply.ok
                                         THEN [status |-> reply.status, code |-> reply.code,
                                               quota |-> reply.quota]
                                         ELSE @]
           todo == AfterAttempt(r.pc, op, out, impl)
       IN Set(c,
            IF todo = "return" THEN EnterLogging(r1, out)
            ELSE IF todo = "fallback"
              THEN [r1 EXCEPT !.pc = "fallback",
                              !.calls = Append(@, Call("fallback", op, r.body,
                                                       FallbackOptions(op, r.body)))]
            ELSE [r1 EXCEPT !.pc = "done", !.out = Thrown(op, out),
                            !.resp = ErrorResp(op, Thrown(op, out))])
  /\ hits' = Refund(conn'[c])
  /\ UNCHANGED <<now, ledger, impl, clientOk, issued, admits, call, editor, blog, db>>

\* ------------------------------------------- the facade, called directly
\* the lines a provider response is made of
Lines == {<<>>, <<" ">>, <<"a">>, <<" ", "b", " ">>, <<"c", " ">>}
Texts == UNION {[1..n -> Lines] : n \in 1..MaxLines}

RECURSIVE TrimStart(_)
TrimStart(line) ==
  IF line # <<>> /\ Head(line) = " " THEN TrimStart(Tail(line)) ELSE line

RECURSIVE TrimEnd(_)
TrimEnd(line) ==
  IF line # <<>> /\ line[Len(line)] = " "
    THEN TrimEnd(SubSeq(line, 1, Len(line) - 1)) ELSE line

\* String.prototype.trim
Trim(line) == TrimEnd(TrimStart(line))

RECURSIVE Filter(_)
\* filter(Boolean): the empty strings are dropped
Filter(lines) ==
  IF lines = <<>> THEN <<>>
  ELSE IF Head(lines) = <<>> THEN Filter(Tail(lines))
  ELSE <<Head(lines)>> \o Filter(Tail(lines))

\* slice(0, n)
Slice(seq, n) == SubSeq(seq, 1, Min(n, Len(seq)))

Titles_Untrimmed(text, count) == Slice(text, count)

\* text.split('\n').map(l => l.trim()).filter(Boolean).slice(0, count)
Titles(text, count) == Slice(Filter([i \in 1..Len(text) |-> Trim(text[i])]), count)

\* the arguments a method can be called with
Arguments(op) ==
  CASE op = "generate" ->
         {[NoBody EXCEPT !.len = 10, !.length = l, !.creativity = cr] :
            l \in {Undefined, "short", "medium", "long", "huge"}, cr \in {Undefined, "0.2"}}
    [] op = "grammar" ->
         {[NoBody EXCEPT !.len = n[1], !.padding = n[2]] :
            n \in {<<0, 0>>, <<0, 3>>, <<1, 0>>, <<600, 0>>, <<998, 3>>, <<2399, 0>>,
                   <<2400, 0>>, <<5000, 0>>}}
    [] op = "enhance" ->
         {[NoBody EXCEPT !.len = 1, !.type = t] : t \in {"expand", "rewrite"}}
    [] op = "titles" ->
         {[NoBody EXCEPT !.len = 10]} \cup
         {[NoBody EXCEPT !.len = 10, !.hasCount = TRUE, !.count = n] : n \in {1, 2}}

\* the errors the provider's client can throw: with or without an HTTP
\* status (403), with or without a numeric code (8, RESOURCE_EXHAUSTED), and
\* with or without the word `quota` in the message
UpstreamErrors ==
  {[ok |-> FALSE, usage |-> FALSE, tokens |-> 0, status |-> s, code |-> k, quota |-> q] :
     s \in {0, 403}, k \in {0, 8}, q \in BOOLEAN}

\* a field of the response that may be missing
Absent == [defined |-> FALSE, value |-> <<>>]
Present(text) == [defined |-> TRUE, value |-> text]

\* the shapes of a response: which of res.text (possibly the empty string),
\* res.response.text and res.output[0].content it has
Shapes ==
  {[hasText |-> FALSE, text |-> <<>>, response |-> r, output |-> o] :
     r \in {Absent, Present(<<<<"b">>>>)}, o \in {Absent, Present(<<<<"c">>>>)}}
  \cup
  {[hasText |-> TRUE, text |-> t, response |-> r, output |-> o] :
     t \in {<<<<"a">>>>, <<<<>>>>},
     r \in {Absent, Present(<<<<"b">>>>)}, o \in {Absent, Present(<<<<"c">>>>)}}

\* what the provider can answer to a direct call: a response, which has a
\* text (in one of its fields, for the methods that return it as it is), or
\* an error, which has none
OneLine == {<<line>> : line \in Lines}
TextReplies(op) ==
  (IF op \in {"titles", "grammar"}
    THEN {[ok |-> r.ok, usage |-> r.usage, tokens |-> r.tokens, status |-> r.status,
           code |-> r.code, quota |-> r.quota, hasText |-> TRUE, text |-> t,
           response |-> Absent, output |-> Absent] :
            r \in {x \in Replies : x.ok},
            t \in IF op = "titles" THEN Texts ELSE OneLine}
    ELSE {[ok |-> r.ok, usage |-> r.usage, tokens |-> r.tokens, status |-> r.status,
           code |-> r.code, quota |-> r.quota, hasText |-> sh.hasText, text |-> sh.text,
           response |-> sh.response, output |-> sh.output] :
            r \in {x \in Replies : x.ok}, sh \in Shapes})
  \cup
  {[ok |-> r.ok, usage |-> r.usage, tokens |-> r.tokens, status |-> r.status,
    code |-> r.code, quota |-> r.quota, hasText |-> FALSE, text |-> <<>>,
    response |-> Absent, output |-> Absent] : r \in UpstreamErrors}

\* no answer: the provider was not asked
NoReply ==
  [ok |-> FALSE, usage |-> FALSE, tokens |-> 0, status |-> 0, code |-> 0,
   quota |-> FALSE, hasText |-> FALSE, text |-> <<>>, response |-> Absent, output |-> Absent]

ExtractText_OutputFirst(res) ==
  IF res.output.defined THEN res.output.value
  ELSE IF res.response.defined THEN res.response.value
  ELSE IF res.hasText THEN res.text
  ELSE <<<<>>>>

\* res?.text ?? res?.response?.text ?? (Array.isArray(res?.output) ?
\* res.output[0]?.content : undefined) ?? '' -- the empty string is one empty line
ExtractText(res) ==
  IF res.hasText THEN res.text
  ELSE IF res.response.defined THEN res.response.value
  ELSE IF res.output.defined THEN res.output.value
  ELSE <<<<>>>>

\* whether a call of the method reaches the provider at all
AsksProvider(service, configured, op, b) == configured /\ ~ShortCircuits(service, op, b)

\* one attempt of a facade method
Attempt(service, configured, reply) ==
  IF service = "genai" THEN CallModel(configured, reply) ELSE OpenAICall(reply)

\* a facade method from its call to its return or throw, given what the
\* provider answers to the first and to the second invocation
FacadeRun(service, configured, op, b, r1, r2) ==
  LET first == Call(IF service = "genai" THEN "default" ELSE "gpt-4", op, b,
                    IF service = "genai" THEN PrimaryOptions(op, b) ELSE OpenAIOptions(op, b))
      sent == IF service = "genai" /\ ~configured THEN 0 ELSE 1
      o1 == Attempt(service, configured, r1)
      o2 == Attempt(service, configured, r2)
      count == IF b.hasCount THEN b.count ELSE 5
      returned(replies, calls, out) ==
        [op |-> op, body |-> b, replies |-> IF sent = 0 THEN <<>> ELSE replies, calls |-> calls,
         upstream |-> sent * Len(calls), out |-> out,
         text |-> IF out.state = "ok" /\ replies # <<>>
                    THEN IF service = "genai" THEN ExtractText(replies[Len(replies)])
                         ELSE replies[Len(replies)].text
                    ELSE <<>>,
         titles |-> IF op = "titles" /\ out.state = "ok"
                      THEN Titles(ExtractText(replies[Len(replies)]), count) ELSE <<>>,
         correctedText |-> IF op = "grammar" /\ out.state = "ok" /\ replies # <<>>
                                /\ service = "genai"
                             THEN Trim(ExtractText(replies[Len(replies)])[1]) ELSE <<>>]
  IN IF ShortCircuits(service, op, b)
       THEN returned(<<>>, <<>>, [state |-> "ok", tokensUsed |-> 0, status |-> 0])
     ELSE IF service = "openai" /\ ~configured
       THEN returned(<<>>, <<>>, Thrown(op, [NoOutcome EXCEPT !.state = "error"]))
     ELSE IF AfterAttempt("primary", op, o1, service) = "return"
       THEN returned(<<r1>>, <<first>>, o1)
     ELSE IF AfterAttempt("primary", op, o1, service) = "throw"
       THEN returned(<<r1>>, <<first>>, Thrown(op, o1))
     ELSE returned(<<r1, r2>>,
                   <<first, Call("fallback", op, b, FallbackOptions(op, b))>>,
                   IF AfterAttempt("fallback", op, o2, service) = "return"
                     THEN o2 ELSE Thrown(op, o2))

\* aiService.<method>(...) called and awaited; the provider's second answer
\* matters only to a call that makes a second invocation
Invoke ==
  /\ call = NoCall
  /\ \E op \in GenOps : \E b \in Arguments(op) :
       IF ~AsksProvider(impl, clientOk, op, b)
         THEN call' = FacadeRun(impl, clientOk, op, b, NoReply, NoReply)
         ELSE \E r1 \in TextReplies(op) :
                IF Len(FacadeRun(impl, clientOk, op, b, r1, r1).calls) = 2
                  THEN \E r2 \in TextReplies(op) :
                         call' = FacadeRun(impl, clientOk, op, b, r1, r2)
                  ELSE call' = FacadeRun(impl, clientOk, op, b, r1, r1)
  /\ UNCHANGED <<conn, hits, now, ledger, impl, clientOk, issued, admits, editor, blog, db>>

\* the caller is done with the result
Return ==
  /\ call # NoCall
  /\ call' = NoCall
  /\ UNCHANGED <<conn, hits, now, ledger, impl, clientOk, issued, admits, editor, blog, db>>

\* the row logAIUsage inserts
UsageRow(r) ==
  [user_id |-> Get(r.user, "user_id"), feature_type |-> FeatureType(r.op, r.body),
   tokens_used |-> r.out.tokensUsed, timestamp |-> now]

\* ai_usage_logs.user_id is NOT NULL and references users
InsertAccepted(row) == row.user_id \in UserIds

LogUsageRethrows_Yes == TRUE

\* whether logAIUsage lets a failure of its INSERT escape to the route
LogUsageRethrows == FALSE

\* the INSERT of logAIUsage settles; the route then sends its response
LogSettle(c) ==
  /\ conn[c].pc = "logging"
  /\ \E dbOk \in BOOLEAN :
       LET r == conn[c]
           row == UsageRow(r)
           ok == dbOk /\ InsertAccepted(row)
           resp == IF ~AwaitsLedgerWrite THEN r.resp
                   ELSE IF ~ok /\ LogUsageRethrows THEN ErrorResp(r.op, NoOutcome)
                   ELSE SuccessResp(r.out, now)
       IN /\ ledger' = IF ok THEN Append(ledger, row) ELSE ledger
          /\ Set(c, [r EXCEPT !.pc = "done", !.log = IF ok THEN "written"
                                      ELSE IF dbOk THEN "rejected" ELSE "failed",
                              !.resp = resp])
  /\ UNCHANGED <<hits, now, impl, clientOk, issued, admits, call, editor, blog, db>>

\* the response has gone out; the connection serves the next request
Retire(c) ==
  /\ conn[c].pc = "done"
  /\ Set(c, IdleConn)
  /\ UNCHANGED <<hits, now, ledger, impl, clientOk, issued, admits, call, editor, blog, db>>

\* a day passes
Tick ==
  /\ now < MaxNow
  /\ now' = now + 1
  /\ UNCHANGED <<conn, hits, ledger, impl, clientOk, issued, admits, call, editor, blog, db>>

\* ------------------------------------------------------------- usage query
\* the characters of the query strings the model sends
Characters(str) ==
  CASE str = "0" -> <<"0">>
    [] str = "1" -> <<"1">>
    [] str = "30" -> <<"3", "0">>
    [] str = "400" -> <<"4", "0", "0">>
    [] str = "1.5" -> <<"1", ".", "5">>
    [] str = "7d" -> <<"7", "d">>
    [] str = "-1" -> <<"-", "1">>
    [] str = "abc" -> <<"a", "b", "c">>
    [] str = "" -> <<>>

DigitValue(ch) ==
  CASE ch = "0" -> 0 [] ch = "1" -> 1 [] ch = "2" -> 2 [] ch = "3" -> 3 [] ch = "4" -> 4
    [] ch = "5" -> 5 [] ch = "6" -> 6 [] ch = "7" -> 7 [] ch = "8" -> 8 [] ch = "9" -> 9
    [] OTHER -> -1

RECURSIVE LeadingDigits(_)
\* the longest prefix of decimal digits
LeadingDigits(chars) ==
  IF chars = <<>> \/ DigitValue(Head(chars)) < 0 THEN <<>>
  ELSE <<Head(chars)>> \o LeadingDigits(Tail(chars))

RECURSIVE Decimal(_)
Decimal(digits) ==
  IF digits = <<>> THEN 0
  ELSE 10 * Decimal(SubSeq(digits, 1, Len(digits) - 1)) + DigitValue(digits[Len(digits)])

\* parseInt(str, 10): an optional sign, then the leading digits; whatever
\* follows them is ignored, and without a digit the result is NaN
ParseInt(str) ==
  LET chars == Characters(str)
      negative == chars # <<>> /\ Head(chars) = "-"
      signed == chars # <<>> /\ Head(chars) \in {"-", "+"}
      digits == LeadingDigits(IF signed THEN Tail(chars) ELSE chars)
  IN IF digits = <<>> THEN [nan |-> TRUE, value |-> 0]
     ELSE [nan |-> FALSE, value |-> IF negative THEN 0 - Decimal(digits) ELSE Decimal(digits)]

RECURSIVE SumTokens(_)
\* SUM(tokens_used) over a set of row numbers
SumTokens(rows) ==
  IF rows = {} THEN 0
  ELSE LET i == CHOOSE x \in rows : TRUE
       IN ledger[i].tokens_used + SumTokens(rows \ {i})

RowsOf_All(uid) == 1..Len(ledger)

\* WHERE user_id = $1 (a NULL parameter matches no row)
RowsOf(uid) == {i \in 1..Len(ledger) : ledger[i].user_id = uid}

\* ... AND timestamp >= NOW() - INTERVAL '<days> days'
RowsInWindow(uid, days) == {i \in RowsOf(uid) : ledger[i].timestamp >= now - days}

ByFeature(rows) ==
  {[feature_type |-> f,
    request_count |-> Cardinality({i \in rows : ledger[i].feature_type = f}),
    total_tokens |-> SumTokens({i \in rows : ledger[i].feature_type = f})] :
   f \in {ledger[i].feature_type : i \in rows}}

DailyUsage(rows) ==
  {[date |-> d,
    requests |-> Cardinality({i \in rows : ledger[i].timestamp = d}),
    tokens |-> SumTokens({i \in rows : ledger[i].timestamp = d})] :
   d \in {ledger[i].timestamp : i \in rows}}

\* the rows the totals query aggregates
TotalRows(uid, days) == RowsOf(uid)

\* GET /usage
UsageQuery(c) ==
  /\ conn[c].pc = "handler"
  /\ \E b \in Bodies("usage"), dbOk \in BOOLEAN :
       LET r == [conn[c] EXCEPT !.op = "usage", !.body = b]
           days == ParseInt(IF b.period = Undefined THEN "30" ELSE b.period)
           uid == Get(r.user, "user_id")
           data == [period |-> days.value,
                    requests |-> Cardinality(TotalRows(uid, days.value)),
                    tokens |-> SumTokens(TotalRows(uid, days.value)),
                    byFeature |-> ByFeature(RowsInWindow(uid, days.value)),
                    dailyUsage |-> DailyUsage(RowsInWindow(uid, days.value))]
       IN Set(c,
            IF days.nan \/ days.value < 1 \/ days.value > 365
              THEN [r EXCEPT !.pc = "done", !.resp = Resp(400, "INVALID_PERIOD")]
            ELSE IF ~dbOk
              THEN [r EXCEPT !.pc = "done", !.resp = Resp(500, "AI_USAGE_ERROR")]
            ELSE [r EXCEPT !.pc = "done", !.resp = [Resp(200, "OK") EXCEPT !.data = data, !.timestamp = now]])
  /\ UNCHANGED <<hits, now, ledger, impl, clientOk, issued, admits, call, editor, blog, db>>

\* ------------------------------------------------------------------- seeding
\* the sample usage logs of the seed script; each is dated a random number
\* of days (below 30) before the seeding, of which the model draws two
SeedAges == {0, 20}
SeedRow(uid, feature, tokens, age) ==
  [user_id |-> uid, feature_type |-> feature, tokens_used |-> tokens, timestamp |-> 0 - age]
SeededLedgers ==
  {<<SeedRow("1", "generate", 150, 0), SeedRow("1", "grammar", 75, a2),
     SeedRow("1", "enhance_improve", 200, 10), SeedRow("2", "titles", 50, 0),
     SeedRow("2", "generate", 300, a5)>> :
   a2 \in SeedAges, a5 \in SeedAges}

\* ---------------------------------------------------- the editor's handlers
Others == <<conn, hits, now, ledger, impl, clientOk, issued, admits, call>>

\* handleTitleChange: setPost({ ...post, title }), post being the latest render's
handleTitleChange ==
  /\ \E v \in Typed : editor' = [editor EXCEPT !.post.title = v]
  /\ UNCHANGED <<Others, blog, db>>

\* handleContentChange: setPost({ ...post, content })
handleContentChange ==
  /\ \E v \in Typed : editor' = [editor EXCEPT !.post.content = v]
  /\ UNCHANGED <<Others, blog, db>>

\* handleAIAction('generate' | 'titles') up to its await: the buttons are
\* disabled while aiLoading, Suggest Titles also on an empty content; the
\* closure keeps the post of the render the click happened in
handleAIAction ==
  /\ ~editor.aiLoading
  /\ \E action \in {"generate", "titles"} :
       /\ action = "titles" => editor.post.content # ""
       /\ editor' = [editor EXCEPT !.aiLoading = TRUE, !.action = action,
                                   !.seen = editor.post, !.applied = "none"]
  /\ UNCHANGED <<Others, blog, db>>

\* the post the continuation of handleAIAction spreads: the `post` of its closure
ApplyTo(e) == e.seen

\* handleAIAction after its await: the request failed, or its result is
\* applied; for titles the user picks one of the suggestions or none
aiResponse ==
  /\ editor.aiLoading
  /\ \E ok \in BOOLEAN, v \in Suggested, picked \in BOOLEAN :
       LET idle == [editor EXCEPT !.aiLoading = FALSE, !.action = "none"]
       IN editor' =
            IF ~ok THEN [idle EXCEPT !.applied = "failed"]
            ELSE IF editor.action = "generate"
              THEN [idle EXCEPT !.post = [ApplyTo(editor) EXCEPT !.content = v],
                                !.applied = "generate"]
            ELSE IF picked
              THEN [idle EXCEPT !.post = [ApplyTo(editor) EXCEPT !.title = v],
                                !.applied = "titles"]
            ELSE [idle EXCEPT !.applied = "dismissed"]
  /\ UNCHANGED <<Others, blog, db>>

\* ----------------------------------------------------------- the blog routes
PostIds == 1..MaxPosts

Live(p) == p \in 1..Len(blog.posts) /\ ~blog.posts[p].deleted

Owned_Any(p, uid) == Live(p)

\* WHERE post_id = $1 AND user_id = $2
Owned(p, uid) == Live(p) /\ blog.posts[p].user_id = uid

Answer(uid, op, p, status, code, ids) ==
  [user |-> uid, op |-> op, id |-> p, status |-> status, code |-> code, posts |-> ids]

\* the bodies of POST /, PUT /:id and PATCH /:id/publish (title and content
\* after trim: "" is a blank one)
PostBodies(op) ==
  CASE op = "create" ->
         {[title |-> t, content |-> "c", status |-> st] :
            t \in {"t", ""}, st \in {Undefined, "published"}}
    [] op = "update" ->
         {[title |-> Undefined, content |-> Undefined, status |-> Undefined],
          [title |-> "t2", content |-> Undefined, status |-> Undefined],
          [title |-> "", content |-> Undefined, status |-> Undefined],
          [title |-> Undefined, content |-> Undefined, status |-> "published"],
          [title |-> Undefined, content |-> Undefined, status |-> "archived"]}
    [] op = "publish" ->
         {[title |-> Undefined, content |-> Undefined, status |-> st] :
            st \in {Undefined, "draft", "published", "archived"}}

\* the validation chains of POST / and PUT /:id
ValidPost(op, b) ==
  /\ IF op = "create" THEN b.title \notin {Undefined, ""} ELSE b.title # ""
  /\ IF op = "create" THEN b.content \notin {Undefined, ""} ELSE b.content # ""
  /\ b.status \in {Undefined, "draft", "published"}

\* GET /
listBlogs ==
  /\ blog.resp = NoAnswer
  /\ \E uid \in UserIds, st \in {Undefined, "draft"}, dbOk \in BOOLEAN :
       blog' = [blog EXCEPT !.resp =
         IF ~dbOk THEN Answer(uid, "list", 0, 500, "BLOGS_FETCH_ERROR", {})
         ELSE Answer(uid, "list", 0, 200, "OK",
                     {p \in PostIds : Owned(p, uid)
                                      /\ (st # Undefined => blog.posts[p].status = st)})]
  /\ UNCHANGED <<Others, editor, db>>

\* GET /:id
getBlog ==
  /\ blog.resp = NoAnswer
  /\ \E uid \in UserIds, p \in PostIds, dbOk \in BOOLEAN :
       blog' = [blog EXCEPT !.resp =
         IF ~dbOk THEN Answer(uid, "get", p, 500, "BLOG_FETCH_ERROR", {})
         ELSE IF ~Owned(p, uid) THEN Answer(uid, "get", p, 404, "POST_NOT_FOUND", {})
         ELSE Answer(uid, "get", p, 200, "OK", {p})]
  /\ UNCHANGED <<Others, editor, db>>

\* POST /
createBlog ==
  /\ blog.resp = NoAnswer
  /\ Len(blog.posts) < MaxPosts
  /\ \E uid \in UserIds, b \in PostBodies("create"), dbOk \in BOOLEAN :
       LET p == Len(blog.posts) + 1
           row == [user_id |-> uid, title |-> b.title, content |-> b.content,
                   status |-> IF b.status = Undefined THEN "draft" ELSE b.status,
                   created_at |-> now, updated_at |-> now, deleted |-> FALSE]
       IN blog' =
            IF ~ValidPost("create", b)
              THEN [blog EXCEPT !.resp = Answer(uid, "create", 0, 400, "VALIDATION_ERROR", {})]
            ELSE IF ~dbOk
              THEN [blog EXCEPT !.resp = Answer(uid, "create", 0, 500, "BLOG_CREATE_ERROR", {})]
            ELSE [posts |-> Append(blog.posts, row),
                  resp |-> Answer(uid, "create", p, 201, "OK", {p})]
  /\ UNCHANGED <<Others, editor, db>>

\* PUT /:id
updateBlog ==
  /\ blog.resp = NoAnswer
  /\ \E uid \in UserIds, p \in PostIds, b \in PostBodies("update"), dbOk \in BOOLEAN :
       LET fields == {f \in {"title", "content", "status"} : b[f] # Undefined}
           row == [f \in DOMAIN blog.posts[p] |->
                     IF f \in fields THEN b[f]
                     ELSE IF f = "updated_at" THEN now ELSE blog.posts[p][f]]
       IN blog' =
            IF ~ValidPost("update", b)
              THEN [blog EXCEPT !.resp = Answer(uid, "update", p, 400, "VALIDATION_ERROR", {})]
            ELSE IF ~dbOk
              THEN [blog EXCEPT !.resp = Answer(uid, "update", p, 500, "BLOG_UPDATE_ERROR", {})]
            ELSE IF ~Owned(p, uid)
              THEN [blog EXCEPT !.resp = Answer(uid, "update", p, 404, "POST_NOT_FOUND", {})]
            ELSE IF fields = {}
              THEN [blog EXCEPT !.resp = Answer(uid, "update", p, 400, "NO_UPDATES", {})]
            ELSE [posts |-> [blog.posts EXCEPT ![p] = row],
                  resp |-> Answer(uid, "update", p, 200, "OK", {p})]
  /\ UNCHANGED <<Others, editor, db>>

\* DELETE /:id
deleteBlog ==
  /\ blog.resp = NoAnswer
  /\ \E uid \in UserIds, p \in PostIds, dbOk \in BOOLEAN :
       blog' =
         IF ~dbOk
           THEN [blog EXCEPT !.resp = Answer(uid, "delete", p, 500, "BLOG_DELETE_ERROR", {})]
         ELSE IF ~Owned(p, uid)
           THEN [blog EXCEPT !.resp = Answer(uid, "delete", p, 404, "POST_NOT_FOUND", {})]
         ELSE [posts |-> [blog.posts EXCEPT ![p].deleted = TRUE],
               resp |-> Answer(uid, "delete", p, 200, "OK", {p})]
  /\ UNCHANGED <<Others, editor, db>>

\* PATCH /:id/publish
publishBlog ==
  /\ blog.resp = NoAnswer
  /\ \E uid \in UserIds, p \in PostIds, b \in PostBodies("publish"), dbOk \in BOOLEAN :
       blog' =
         IF b.status \notin {"draft", "published"}
           THEN [blog EXCEPT !.resp = Answer(uid, "publish", p, 400, "INVALID_STATUS", {})]
         ELSE IF ~dbOk
           THEN [blog EXCEPT !.resp = Answer(uid, "publish", p, 500, "BLOG_PUBLISH_ERROR", {})]
         ELSE IF ~Owned(p, uid)
           THEN [blog EXCEPT !.resp = Answer(uid, "publish", p, 404, "POST_NOT_FOUND", {})]
         ELSE [posts |-> [blog.posts EXCEPT ![p].status = b.status, ![p].updated_at = now],
               resp |-> Answer(uid, "publish", p, 200, "OK", {p})]
  /\ UNCHANGED <<Others, editor, db>>

\* ------------------------------------------------------- the database module
ShouldRetry_Always(msg, env) == TRUE

\* msg.includes('does not support SSL') && sslMode !== 'disable'
ShouldRetry(msg, env) == msg = NoSslMessage /\ Mode(env) # "disable"

\* connectDB up to its first await in the catch block: the first attempt
\* succeeds, or fails and is thrown, or fails and the pool is being closed
connectDB ==
  /\ db.pc = "start"
  /\ \E outcome \in {"ok"} \cup ConnectErrors :
       db' = IF outcome = "ok"
               THEN [db EXCEPT !.pc = "connected", !.attempts = 1]
             ELSE IF ShouldRetry(outcome, db.env)
               THEN [db EXCEPT !.pc = "closing", !.attempts = 1, !.first = outcome,
                               !.pool.ended = TRUE]
             ELSE [db EXCEPT !.pc = "thrown", !.attempts = 1, !.first = outcome,
                             !.thrown = outcome]
  /\ UNCHANGED <<Others, editor, blog>>

\* pool.end() has settled, either way: pool = buildPool('disable')
rebuildPool ==
  /\ db.pc = "closing"
  /\ db' = [db EXCEPT !.pc = "retrying", !.pool = buildPool("disable", db.pool.n + 1)]
  /\ UNCHANGED <<Others, editor, blog>>

\* the second attempt, on the rebuilt pool
connectRetry ==
  /\ db.pc = "retrying"
  /\ \E outcome \in {"ok"} \cup ConnectErrors :
       db' = IF outcome = "ok"
               THEN [db EXCEPT !.pc = "connected", !.attempts = 2, !.queried = NoQuery]
               ELSE [db EXCEPT !.pc = "thrown", !.attempts = 2, !.second = outcome,
                               !.thrown = outcome]
  /\ UNCHANGED <<Others, editor, blog>>

\* query: pool.query on whatever `pool` is at the time of the call
query ==
  /\ \E ok \in BOOLEAN :
       db' = [db EXCEPT !.queried = [n |-> db.pool.n, ssl |-> db.pool.ssl,
                                     ok |-> ok /\ ~db.pool.ended]]
  /\ UNCHANGED <<Others, editor, blog>>

\* ------------------------------------------------------------ specifications
Next ==
  \/ \E c \in Conns :
       \/ Arrive(c)
       \/ authenticateToken(c)
       \/ aiRateLimiter(c)
       \/ Handle(c)
       \/ ProviderReply(c)
       \/ LogSettle(c)
       \/ Retire(c)

\* the generation endpoints, on a database whose users registered themselves
Spec == Init /\ [][Next]_vars

InitSeeded ==
  /\ conn = [c \in Conns |-> IdleConn]
  /\ hits = [k \in Keys |-> NoBucket]
  /\ now = 0
  /\ ledger \in SeededLedgers
  /\ impl = "genai"
  /\ clientOk = TRUE
  /\ issued = [u \in UserIds |-> NoBucket]
  /\ admits = [u \in UserIds |-> NoBucket]
  /\ call = NoCall
  /\ editor = NewEditor
  /\ blog = EmptyBlog
  /\ db = FreshDb

NextUsage ==
  \/ Tick
  \/ \E c \in Conns :
       \/ Arrive(c)
       \/ authenticateToken(c)
       \/ aiRateLimiter(c)
       \/ UsageQuery(c)
       \/ Retire(c)

\* the usage endpoint, on a seeded database
SpecUsage == InitSeeded /\ [][NextUsage]_vars

InitFacade ==
  /\ conn = [c \in Conns |-> IdleConn]
  /\ hits = [k \in Keys |-> NoBucket]
  /\ now = 0
  /\ ledger = <<>>
  /\ impl \in {"genai", "openai"}
  /\ clientOk \in BOOLEAN
  /\ issued = [u \in UserIds |-> NoBucket]
  /\ admits = [u \in UserIds |-> NoBucket]
  /\ call = NoCall
  /\ editor = NewEditor
  /\ blog = EmptyBlog
  /\ db = FreshDb

NextFacade == Invoke \/ Return

\* the methods of aiService, called one at a time
SpecFacade == InitFacade /\ [][NextFacade]_vars

NextQuery ==
  \/ \E c \in Conns :
       \/ Arrive(c)
       \/ authenticateToken(c)
       \/ aiRateLimiter(c)
       \/ UsageQuery(c)
       \/ Retire(c)

\* the usage endpoint on the day of the seeding
SpecQuery == InitSeeded /\ [][NextQuery]_vars

InitGovernor ==
  /\ conn = [c \in Callers |-> IdleConn]
  /\ hits = [k \in Keys |-> NoBucket]
  /\ now = 0
  /\ ledger = <<>>
  /\ impl = "genai"
  /\ clientOk = TRUE
  /\ issued = [u \in UserIds |-> NoBucket]
  /\ admits = [u \in UserIds |-> NoBucket]
  /\ call = NoCall
  /\ editor = NewEditor
  /\ blog = EmptyBlog
  /\ db = FreshDb

NextGovernor ==
  \/ \E c \in Callers :
       \/ Arrive(c)
       \/ authenticateToken(c)
       \/ storeIncrement(c)
       \/ limiterDecide(c)
       \/ UsageQuery(c)
       \/ Retire(c)

\* concurrent requests in the rate limiter, within one window
SpecGovernor == InitGovernor /\ [][NextGovernor]_vars

NextEditor ==
  \/ handleTitleChange
  \/ handleContentChange
  \/ handleAIAction
  \/ aiResponse

InitEditor ==
  /\ conn = [c \in Conns |-> IdleConn]
  /\ hits = [k \in Keys |-> NoBucket]
  /\ now = 0
  /\ ledger = <<>>
  /\ impl = "genai"
  /\ clientOk = TRUE
  /\ issued = [u \in UserIds |-> NoBucket]
  /\ admits = [u \in UserIds |-> NoBucket]
  /\ call = NoCall
  /\ editor = NewEditor
  /\ blog = EmptyBlog
  /\ db = FreshDb

\* one user in the editor of a new post
SpecEditor == InitEditor /\ [][NextEditor]_vars

\* the answer has gone out; the next request is served
sendAnswer ==
  /\ blog.resp # NoAnswer
  /\ blog' = [blog EXCEPT !.resp = NoAnswer]
  /\ UNCHANGED <<Others, editor, db>>

NextBlogs ==
  \/ sendAnswer
  \/ listBlogs
  \/ getBlog
  \/ createBlog
  \/ updateBlog
  \/ deleteBlog
  \/ publishBlog

\* the blog routes, called by the registered users on an empty table
SpecBlogs == InitEditor /\ [][NextBlogs]_vars

InitDb ==
  /\ conn = [c \in Conns |-> IdleConn]
  /\ hits = [k \in Keys |-> NoBucket]
  /\ now = 0
  /\ ledger = <<>>
  /\ impl = "genai"
  /\ clientOk = TRUE
  /\ issued = [u \in UserIds |-> NoBucket]
  /\ admits = [u \in UserIds |-> NoBucket]
  /\ call = NoCall
  /\ editor = NewEditor
  /\ blog = EmptyBlog
  /\ db \in {StartDb(env) : env \in SslModes}

NextDb ==
  \/ connectDB
  \/ rebuildPool
  \/ connectRetry
  \/ query

\* the start of a process: connectDB is called once, queries at any time
SpecDb == InitDb /\ [][NextDb]_vars

\* -------------------------------------------------------------------- claims
SameArguments(a, b) ==
  /\ a.prompt = b.prompt
  /\ a.temperature = b.temperature
  /\ a.maxOutputTokens = b.maxOutputTokens

\* the facade's call to the primary model has failed
PrimaryFailed(c) == conn[c].primary = "error"

\* the facade was called for the request on c and has thrown
FacadeFailed(c) == conn[c].calls # <<>> /\ conn[c].out.state = "error"

\* C1: in generateContent, enhanceContent and generateTitles of the GenAI
\* facade, a failure of the call to the primary model is never surfaced
\* before the fallback model was called with the same prompt, temperature
\* and maxOutputTokens; when the fallback fails too, the caller gets one
\* error response, which carries the status of the fallback's failure.
C1_FallbackBeforeFailure ==
  \A c \in Conns :
    LET r == conn[c]
    IN impl = "genai" /\ r.op \in {"generate", "enhance", "titles"} /\ PrimaryFailed(c)
       => /\ Len(r.calls) = 2
          /\ r.calls[1].model = "default"
          /\ r.calls[2].model = "fallback"
          /\ SameArguments(r.calls[1], r.calls[2])
          /\ r.pc \in {"fallback", "logging", "done"}
          /\ FacadeFailed(c) => /\ r.pc = "done"
                                /\ r.resp = ErrorResp(r.op, r.out)
                                /\ r.resp.status \in {429, 500, 503}

C1_Witness ==
  \E c \in Conns :
    /\ impl = "genai" /\ conn[c].op = "generate" /\ conn[c].pc = "done"
    /\ conn[c].body.length = "long" /\ conn[c].body.creativity = "0.2"
    /\ FacadeFailed(c) /\ Len(conn[c].calls) = 2 /\ conn[c].upstream = 2
    /\ conn[c].resp.status = 429

\* C2: correctGrammar of the GenAI facade on non-empty text calls the
\* fallback model once, with the same prompt and parameters, before it fails.
C2_GrammarFallsBack ==
  \A c \in Conns :
    LET r == conn[c]
    IN impl = "genai" /\ r.op = "grammar" /\ r.body.len > 0 /\ r.pc = "done" /\ FacadeFailed(c)
       => /\ Len(r.calls) = 2
          /\ r.calls[2].model = "fallback"
          /\ SameArguments(r.calls[1], r.calls[2])

\* C3: a generation call makes at most two provider invocations; the second
\* goes to the fallback model and is made only after the primary invocation
\* has ended in a failure; and the call ends either with a result, whose token
\* cost the response carries, or with a failure and an error response.
C3_CallStateMachine ==
  \A c \in Conns :
    LET r == conn[c]
    IN /\ Len(r.calls) <= 2
       /\ r.upstream <= Len(r.calls)
       /\ r.pc = "primary" => Len(r.calls) = 1 /\ r.primary = "pending"
       /\ Len(r.calls) = 2 => r.primary = "error" /\ r.calls[2].model = "fallback"
       /\ r.primary = "ok" => Len(r.calls) = 1
       /\ r.pc = "done" /\ r.calls # <<>> =>
            \/ /\ r.out.state = "ok"
               /\ r.resp.status = 200 /\ r.resp.tokensUsed = r.out.tokensUsed
            \/ /\ r.out.state = "error"
               /\ r.resp.status \in {429, 500, 503} /\ r.log = "none"

C3_Witness ==
  \E c \in Conns :
    /\ conn[c].pc = "done" /\ Len(conn[c].calls) = 2 /\ conn[c].primary = "error"
    /\ conn[c].out.state = "ok" /\ conn[c].resp.status = 200 /\ conn[c].resp.tokensUsed = 7

\* the request on c has been through the rate governor
Governed(c) == conn[c].key # ""

\* C4: the governor admits a caller's request exactly when it is among the
\* first FreeTierMax requests that caller issued in its own window (a window
\* that has elapsed starts again), and answers every other one with 429.
C4_CeilingPerCaller ==
  \A c \in Conns :
    Governed(c) =>
      /\ conn[c].admitted = conn[c].within
      /\ ~conn[c].admitted => conn[c].resp.status = 429

\* C5: an authenticated request is counted in the bucket `user:<id>` of its
\* own user, so every user's bucket counts that user's requests and no others.
C5_BucketPerUser ==
  /\ \A c \in Conns : Governed(c) => conn[c].key = "user:" \o conn[c].user.id
  /\ \A u \in UserIds : hits["user:" \o u] = issued[u]

\* C6: when a generation request has been answered with success (and the
\* database was up), the ledger holds the record of it: the caller's id, the
\* feature kind and the token cost the response carries.
C6_SuccessIsRecorded ==
  \A c \in Conns :
    LET r == conn[c]
    IN r.pc = "done" /\ r.op \in GenOps /\ r.resp.status = 200 /\ r.log # "failed"
       => /\ r.log = "written"
          /\ \E i \in 1..Len(ledger) :
               ledger[i] = [user_id |-> r.user.id,
                            feature_type |-> FeatureType(r.op, r.body),
                            tokens_used |-> r.resp.tokensUsed,
                            timestamp |-> r.resp.timestamp]

\* the caller's usage records dated within the `days` days before time t
OwnRecordsWithin(uid, days, t) ==
  {i \in 1..Len(ledger) : ledger[i].user_id = uid /\ ledger[i].timestamp >= t - days}

\* C7: the total of a usage response counts exactly the caller's usage
\* records of the last d days, d being the period asked for (30 by default).
C7_TotalOverWindow ==
  \A c \in Conns :
    LET r == conn[c]
        d == ParseInt(IF r.body.period = Undefined THEN "30" ELSE r.body.period).value
        own == OwnRecordsWithin(r.user.id, d, r.resp.timestamp)
    IN r.pc = "done" /\ r.op = "usage" /\ r.resp.status = 200
       => /\ r.resp.data.requests = Cardinality(own)
          /\ r.resp.data.tokens = SumTokens(own)

\* C8: a request the governor rejects is answered with 429 and goes no
\* further: no provider invocation, no upstream call, no ledger write.
C8_RejectedConsumesNothing ==
  \A c \in Conns :
    LET r == conn[c]
    IN Governed(c) /\ ~r.admitted
       => /\ r.pc = "done"
          /\ r.resp = Resp(429, "AI_RATE_LIMIT_EXCEEDED")
          /\ r.calls = <<>> /\ r.upstream = 0
          /\ r.log = "none" /\ r.out = NoOutcome

C8_Witness ==
  \E c \in Conns :
    /\ Governed(c) /\ ~conn[c].admitted /\ conn[c].pc = "done"
    /\ hits[conn[c].key].count > FreeTierMax

\* C9: when the facade returned a result and the ledger insert failed, the
\* caller still gets the success response with that result's token cost.
C9_LedgerFailureSwallowed ==
  \A c \in Conns :
    LET r == conn[c]
    IN r.pc = "done" /\ r.log \in {"failed", "rejected"}
       => /\ r.out.state = "ok"
          /\ r.resp = SuccessResp(r.out, r.resp.timestamp)

C9_Witness ==
  \E c \in Conns :
    /\ conn[c].pc = "done" /\ conn[c].log = "failed"
    /\ conn[c].resp.status = 200 /\ conn[c].resp.tokensUsed = 7

\* C10 as stated: while the ledger write of a successful generation request
\* is pending, the response is not held back.
C10_ResponseNotHeldBack ==
  \A c \in Conns : conn[c].log = "pending" => conn[c].resp.status = 200

\* C10 amended: the response of a successful generation request is sent only
\* when the ledger write has settled: none is sent while the write is
\* pending, and every success response follows a settled write.
C10_ResponseAfterSettledWrite ==
  \A c \in Conns :
    LET r == conn[c]
    IN /\ r.log = "pending" => r.resp = NoResp /\ r.pc = "logging"
       /\ r.op \in GenOps /\ r.resp.status = 200 => r.log \in {"written", "failed", "rejected"}

C10_Witness ==
  \E c \in Conns :
    /\ conn[c].log = "pending" /\ conn[c].out.state = "ok" /\ conn[c].out.tokensUsed = 7
    /\ conn[c].resp = NoResp

Unidentified(r) == r.pc # "idle" /\ r.token \notin UserIds

Malformed(op, b) ==
  \/ op = "generate" /\ (b.len < 10 \/ b.len > 2000)
  \/ op \in {"grammar", "enhance"} /\ (b.len < 1 \/ b.len > 5000)
  \/ op = "enhance" /\ b.type \notin {"expand", "simplify", "improve", "summarize"}
  \/ op = "titles" /\ (b.len < 10 \/ b.len > 10000)
  \/ op = "titles" /\ b.hasCount /\ (b.count < 1 \/ b.count > 10)

\* C13: a request whose input fails validation is answered with 400
\* VALIDATION_ERROR before any external call: no provider invocation, no
\* upstream call, no usage record.
C13_InvalidRejectedEarly ==
  \A c \in Conns :
    LET r == conn[c]
    IN /\ r.op \in GenOps /\ Malformed(r.op, r.body)
            => /\ r.pc = "done" /\ r.resp = Resp(400, "VALIDATION_ERROR")
               /\ r.calls = <<>> /\ r.upstream = 0
               /\ r.log = "none" /\ r.out = NoOutcome
       /\ r.resp.code = "VALIDATION_ERROR" => Malformed(r.op, r.body)

C13_Witness ==
  \E c \in Conns :
    /\ conn[c].op = "enhance" /\ conn[c].body.type = "rewrite"
    /\ conn[c].pc = "done" /\ conn[c].resp.status = 400
    /\ conn[c].admitted /\ Len(ledger) = 0

\* the period is written as a whole number of days between 1 and 365
WholeDaysInRange(str) ==
  LET chars == Characters(str)
  IN /\ chars # <<>>
     /\ \A i \in 1..Len(chars) : DigitValue(chars[i]) >= 0
     /\ Decimal(chars) >= 1 /\ Decimal(chars) <= 365

\* C14: the usage query fails with 400 INVALID_PERIOD, the ledger not
\* queried, for every period that is not an integer in 1..365; without a
\* period it answers for 30 days (the database being up).
C14_PeriodChecked ==
  \A c \in Conns :
    LET r == conn[c]
    IN r.pc = "done" /\ r.op = "usage" /\ r.resp.code # "AI_USAGE_ERROR"
       => /\ r.body.period # Undefined /\ ~WholeDaysInRange(r.body.period)
               => r.resp = Resp(400, "INVALID_PERIOD")
          /\ r.body.period = Undefined /\ r.resp.status = 200 => r.resp.data.period = 30

\* the usage records that belong to user uid
OwnRecords(uid) == {i \in 1..Len(ledger) : ledger[i].user_id = uid}

\* C15: what the usage query returns to a caller is made of the caller's
\* own usage records only: the total, byFeature and dailyUsage are
\* aggregates of sets of records that belong to the caller, whatever
\* records other users have.
C15_ScopedToCaller ==
  \A c \in Conns :
    LET r == conn[c]
        own == OwnRecords(r.user.id)
    IN r.pc = "done" /\ r.op = "usage" /\ r.resp.status = 200
       => /\ \E rows \in SUBSET own :
               /\ r.resp.data.requests = Cardinality(rows)
               /\ r.resp.data.tokens = SumTokens(rows)
          /\ \E rows \in SUBSET own :
               /\ r.resp.data.byFeature = ByFeature(rows)
               /\ r.resp.data.dailyUsage = DailyUsage(rows)

C15_Witness ==
  \E c \in Conns :
    /\ conn[c].pc = "done" /\ conn[c].op = "usage" /\ conn[c].resp.status = 200
    /\ conn[c].user.id = "1" /\ conn[c].body.period = "1"
    /\ \E i \in 1..Len(ledger) :
         ledger[i].user_id = "2" /\ ledger[i].timestamp >= conn[c].resp.timestamp - 1

\* C16: correctGrammar on an empty or white-space-only text returns an empty
\* corrected text and a token cost of 0 without invoking the provider: no
\* call of the client, no upstream call (the client being configured).
C16_EmptyTextShortCircuits ==
  clientOk /\ call.op = "grammar" /\ call.body.len = 0
    => /\ call.calls = <<>> /\ call.upstream = 0
       /\ call.out = [state |-> "ok", tokensUsed |-> 0, status |-> 0]
       /\ call.correctedText = <<>>

\* the lines of a text that hold more than white space
NonBlank(text) ==
  {i \in 1..Len(text) : \E k \in 1..Len(text[i]) : text[i][k] # " "}

\* the j-th smallest member of a set of numbers
Nth(S, j) == CHOOSE i \in S : Cardinality({m \in S : m <= i}) = j

\* title is line without the white space at its ends
IsTrimmed(title, line) ==
  /\ title # <<>> /\ Head(title) # " " /\ title[Len(title)] # " "
  /\ \E a \in 0..Len(line) :
       /\ a + Len(title) <= Len(line)
       /\ SubSeq(line, a + 1, a + Len(title)) = title
       /\ \A k \in 1..Len(line) : (k <= a \/ k > a + Len(title)) => line[k] = " "

\* C17: for a provider response with k non-blank lines generateTitles returns
\* exactly the first min(count, k) of them, each trimmed, none empty, in the
\* order of the response, whether the primary or the fallback model answered.
C17_TitlesFromLines ==
  call.op = "titles" /\ call.out.state = "ok"
    => LET text == call.replies[Len(call.replies)].text
           count == IF call.body.hasCount THEN call.body.count ELSE 5
           lines == NonBlank(text)
           n == IF count <= Cardinality(lines) THEN count ELSE Cardinality(lines)
       IN /\ Len(call.titles) = n
          /\ \A j \in 1..n : IsTrimmed(call.titles[j], text[Nth(lines, j)])

C17_Witness ==
  /\ call.op = "titles" /\ call.out.state = "ok" /\ Len(call.calls) = 2
  /\ call.body.hasCount /\ call.body.count = 2
  /\ call.replies[2].text = << <<" ", "b", " ">>, <<" ">>, <<"c", " ">> >>
  /\ call.titles = << <<"b">>, <<"c">> >>

\* C18: generateContent passes a maxOutputTokens fixed by the requested
\* length alone, 300 for short, 600 for medium, 1200 for long, 600 for an
\* absent or unknown length, and the same to the primary and the fallback.
C18_MaxTokensByLength ==
  call.op = "generate"
    => \A i \in 1..Len(call.calls) :
         call.calls[i].maxOutputTokens =
           CASE call.body.length = "short" -> 300
             [] call.body.length = "long" -> 1200
             [] OTHER -> 600

C18_Witness ==
  /\ call.op = "generate" /\ call.body.length = "long" /\ call.body.creativity = "0.2"
  /\ Len(call.calls) = 2 /\ call.calls[2].model = "fallback"
  /\ call.calls[2].maxOutputTokens = 1200 /\ call.out.state = "ok"

\* C19: the token cost of a successful generation result is a non-negative
\* integer; when the provider's response reports no usage the call still
\* succeeds, with a cost of 0.
C19_TokenCostDefined ==
  /\ call.out.state = "ok" => call.out.tokensUsed \in Nat
  /\ \A i \in 1..Len(call.replies) :
       i = Len(call.replies) /\ call.replies[i].ok /\ ~call.replies[i].usage
         => call.out.state = "ok" /\ call.out.tokensUsed = 0

\* C20: with the provider client not configured, each of the four generation
\* endpoints answers 503, and no upstream call is made.
C20_UnconfiguredIs503 ==
  \A c \in Conns :
    LET r == conn[c]
    IN ~clientOk /\ r.pc = "done" /\ r.op \in GenOps /\ r.out.state = "error"
       => r.resp.status = 503 /\ r.upstream = 0

\* C21: an upstream failure whose message indicates quota exhaustion is raised
\* by the provider client with status 429, whatever status or code the
\* upstream error carries; every upstream failure is raised with a numeric
\* status.
C21_QuotaIs429 ==
  (/\ call.op # "none" /\ impl = "genai"
   /\ call.out.state = "error" /\ call.replies # <<>>)
    => LET err == call.replies[Len(call.replies)]
       IN /\ call.out.status \in Nat \ {0}
          /\ err.quota => call.out.status = 429

\* C22: correctGrammar of the GenAI facade on a non-empty text calls the
\* provider with temperature 0 and maxOutputTokens equal to half the text's
\* length rounded up, clamped to [300, 1200].
C22_GrammarTokensClamped ==
  (/\ call.op = "grammar" /\ impl = "genai" /\ call.calls # <<>>)
    => LET length == call.body.len + call.body.padding
           m == call.calls[1].maxOutputTokens
       IN /\ length >= 1 /\ length <= 5000
          /\ call.calls[1].temperature = "0.0"
          /\ m >= 300 /\ m <= 1200
          /\ length <= 600 => m = 300
          /\ length >= 2400 => m = 1200
          /\ (length > 600 /\ length < 2400) => (2 * m >= length /\ 2 * (m - 1) < length)

C22_Witness ==
  /\ call.op = "grammar" /\ impl = "genai" /\ call.calls # <<>>
  /\ call.body.len + call.body.padding = 1001
  /\ call.calls[1].maxOutputTokens = 501

RECURSIVE SumOver(_, _)
\* the sum of one column over the rows of a result
SumOver(rows, column) ==
  IF rows = {} THEN 0
  ELSE LET row == CHOOSE x \in rows : TRUE
       IN row[column] + SumOver(rows \ {row}, column)

\* C23: for a window of d days in [1, 365], byFeature and dailyUsage are
\* aggregates of the same set, the caller's usage records of the last d
\* days: their request counts add up to the same number, their tokens too,
\* and dailyUsage has exactly one entry per distinct date in that set.
C23_SameWindowedSet ==
  \A c \in Conns :
    LET r == conn[c]
        d == ParseInt(IF r.body.period = Undefined THEN "30" ELSE r.body.period).value
        own == OwnRecordsWithin(r.user.id, d, r.resp.timestamp)
        data == r.resp.data
    IN r.pc = "done" /\ r.op = "usage" /\ r.resp.status = 200
       => /\ SumOver(data.byFeature, "request_count") = SumOver(data.dailyUsage, "requests")
          /\ SumOver(data.byFeature, "total_tokens") = SumOver(data.dailyUsage, "tokens")
          /\ SumOver(data.dailyUsage, "requests") = Cardinality(own)
          /\ {e.date : e \in data.dailyUsage} = {ledger[i].timestamp : i \in own}
          /\ Cardinality(data.dailyUsage) = Cardinality({ledger[i].timestamp : i \in own})

\* C24: the provider client (GenAI) never fails because a response has no
\* text: what it returns is the first defined of the response's text, its
\* nested response text and the content of its first output item, in that
\* order, and the empty string when the response has none of them.
C24_TextFromKnownShapes ==
  (/\ call.op \in {"generate", "enhance"} /\ impl = "genai" /\ call.replies # <<>>
   /\ call.replies[Len(call.replies)].ok)
    => LET res == call.replies[Len(call.replies)]
       IN /\ call.out.state = "ok"
          /\ res.hasText => call.text = res.text
          /\ (~res.hasText /\ res.response.defined) => call.text = res.response.value
          /\ (~res.hasText /\ ~res.response.defined /\ res.output.defined)
               => call.text = res.output.value
          /\ (~res.hasText /\ ~res.response.defined /\ ~res.output.defined)
               => call.text = <<<<>>>>

C24_Witness ==
  /\ call.op = "generate" /\ impl = "genai" /\ Len(call.replies) = 2
  /\ LET res == call.replies[2]
     IN /\ res.ok /\ ~res.hasText /\ ~res.response.defined /\ res.output.defined
        /\ call.text = <<<<"c">>>>

\* C25: every authenticated request to an AI endpoint is governed by the
\* free-tier limiter, with the free-tier ceiling and the 24-hour window; the
\* premium-tier limiter is applied to no request, and the IP-based branch of
\* aiRateLimiter is never taken, authentication having run first.
C25_FreeTierForAll ==
  \A c \in Conns :
    LET r == conn[c]
    IN /\ r.pc \in {"handler", "primary", "fallback", "logging"} => r.limiter = "free"
       /\ r.limiter # "none" =>
            /\ r.limiter = "free"
            /\ r.user # NoUser
            /\ r.key \in UserKeys
            /\ r.admitted <=> r.totalHits <= FreeTierMax
            /\ hits[r.key].resetTime <= now + WindowDays
            /\ ~r.admitted => r.resp = Resp(429, "AI_RATE_LIMIT_EXCEEDED")
       /\ \A k \in Keys \ UserKeys : hits[k] = NoBucket

C25_Witness ==
  \E c \in Conns :
    /\ conn[c].limiter = "free" /\ conn[c].user # NoUser /\ ~conn[c].admitted
    /\ conn[c].totalHits = FreeTierMax + 1 /\ conn[c].resp.status = 429

\* C26: the quota counter counts requests: every authenticated request that
\* reaches the governor adds one to the count of the bucket it is governed
\* by (a bucket whose window has elapsed starts again at one), and no later
\* step of the request, a rejection by validation and a failure of both
\* provider attempts included, changes any count.
C26_CountsRequests ==
  [][\A c \in Conns :
       conn'[c] # conn[c] =>
         IF conn[c].pc = "limit"
           THEN LET k == conn'[c].key
                IN /\ conn'[c].user # NoUser
                   /\ hits'[k].count =
                        IF hits[k].count = 0 \/ hits[k].resetTime <= now
                          THEN 1 ELSE hits[k].count + 1
                   /\ conn'[c].totalHits = hits'[k].count
                   /\ \A j \in Keys \ {k} : hits'[j] = hits[j]
           ELSE hits' = hits]_vars

C26_Witness ==
  \E c \in Conns :
    /\ conn[c].pc = "done" /\ conn[c].out.state = "error" /\ Len(conn[c].calls) = 2
    /\ conn[c].resp.status >= 500
    /\ conn[c].totalHits = 2 /\ hits[conn[c].key].count = 2

\* C27: when a generation call fails (both provider attempts, or the single
\* attempt of correctGrammar), the endpoint answers with an error, 429 when
\* the upstream failure was a quota error and 5xx otherwise, and no usage
\* record is written for the call: the ledger is left as it was.
C27_FailedCallNotRecorded ==
  [][\A c \in Conns :
       (conn[c].pc \in {"primary", "fallback"} /\ conn'[c].pc = "done")
         => /\ conn'[c].out.state = "error"
            /\ conn'[c].failure.quota => conn'[c].resp.status = 429
            /\ ~conn'[c].failure.quota => conn'[c].resp.status \in {500, 503}
            /\ conn'[c].log = "none"
            /\ ledger' = ledger]_vars

\* C28: an edit the user makes to the title or the content while a generate
\* or titles request is in flight is kept when the response is applied:
\* applying it changes the field the action targets, content for generate
\* and title for titles, and every other field keeps its latest value.
C28_EditsSurviveResponse ==
  [][(editor.aiLoading /\ editor'.applied \in {"generate", "titles"})
       => IF editor'.applied = "generate"
            THEN /\ editor'.post.title = editor.post.title
                 /\ editor'.post.status = editor.post.status
            ELSE /\ editor'.post.content = editor.post.content
                 /\ editor'.post.status = editor.post.status]_vars

\* the request answered in this step was made on an existing post that the
\* requesting user does not own
ByAStranger ==
  /\ blog'.resp.op \in {"get", "update", "delete", "publish"}
  /\ Live(blog'.resp.id)
  /\ blog.posts[blog'.resp.id].user_id # blog'.resp.user

\* listing returns only posts the caller owns
ListsOwnPosts ==
  blog.resp.op = "list" =>
    \A p \in blog.resp.posts : Live(p) /\ blog.posts[p].user_id = blog.resp.user

\* C29 as stated: every operation on a single post by a user who does not
\* own it is answered with 404 POST_NOT_FOUND (the database being up) and
\* leaves the post unchanged; listing returns only the caller's posts.
C29_StrangerGets404 ==
  [][/\ (ByAStranger /\ blog'.resp.status # 500)
          => /\ blog'.resp.status = 404 /\ blog'.resp.code = "POST_NOT_FOUND"
             /\ blog'.posts = blog.posts
     /\ ListsOwnPosts']_vars

\* C29 amended: an operation on a single post by a user who does not own it
\* never succeeds, returns no post and leaves the table unchanged; it is
\* answered with 404 POST_NOT_FOUND, unless the request is malformed, which
\* PUT and PATCH answer with 400 before they look the post up, or the
\* database fails (500).  Listing returns only the caller's posts.
C29_StrangerNeverSucceeds ==
  [][/\ ByAStranger
          => /\ blog'.posts = blog.posts
             /\ blog'.resp.posts = {}
             /\ \/ blog'.resp.status = 404 /\ blog'.resp.code = "POST_NOT_FOUND"
                \/ /\ blog'.resp.status = 400
                   /\ blog'.resp.code = IF blog'.resp.op = "update"
                                          THEN "VALIDATION_ERROR" ELSE "INVALID_STATUS"
                   /\ blog'.resp.op \in {"update", "publish"}
                \/ blog'.resp.status = 500
     /\ ListsOwnPosts']_vars

C29_Witness ==
  /\ blog.resp.op = "delete" /\ blog.resp.status = 404
  /\ Live(blog.resp.id) /\ blog.posts[blog.resp.id].user_id # blog.resp.user
  /\ \E p \in PostIds : Owned(p, blog.resp.user)

\* the first attempt failed because the server does not support SSL, and
\* DB_SSL is not `disable`
FirstFailureIsNoSsl == db.first = NoSslMessage /\ db.env \notin {"disable", "DISABLE"}

\* C30: connectDB retries at most once, and only when the first attempt
\* failed with a message saying the server does not support SSL while the
\* SSL mode is not `disable`: it closes the pool, rebuilds it without SSL and
\* tries once more.  Any other first failure, and a failure of the retry, is
\* thrown to the caller; after a successful retry the queries go to the
\* rebuilt pool, which does not use SSL.
C30_RetryOnceWithoutSsl ==
  /\ db.attempts <= 2 /\ db.pool.n <= 2
  /\ (db.pc \in {"closing", "retrying"} \/ db.attempts = 2) <=> FirstFailureIsNoSsl
  /\ db.pc = "closing" => db.pool.n = 1 /\ db.pool.ended
  /\ (db.pc = "retrying" \/ db.attempts = 2)
       => db.pool = [ssl |-> FALSE, ended |-> FALSE, n |-> 2]
  /\ (db.first # "" /\ ~FirstFailureIsNoSsl)
       => db.pc = "thrown" /\ db.thrown = db.first /\ db.attempts = 1
  /\ db.second # "" => db.pc = "thrown" /\ db.thrown = db.second
  /\ db.pc = "thrown" => db.thrown \in ConnectErrors
  /\ (db.pc = "connected" /\ db.attempts = 2 /\ db.queried # NoQuery)
       => db.queried.n = 2 /\ ~db.queried.ssl

C30_Witness ==
  /\ db.pc = "connected" /\ db.attempts = 2 /\ db.first = NoSslMessage
  /\ db.queried.n = 2 /\ db.queried.ok
====
